---- MODULE Spec2Model ----
(***************************************************************************)
(* Number masking for a ride-sharing service: the proxy-number allocator   *)
(* (getAvailableProxyNumber), the ride-creation handler that commits its   *)
(* result, and the two inbound webhooks (SMS relay, voice transfer) that   *)
(* route an event on a proxy number to the other party of a ride.          *)
(*                                                                         *)
(* The sqlite database is the persistent state (tables proxy_numbers and   *)
(* rides; customers and drivers hold the rows initExampleDB inserts).      *)
(* Every handler starts by loading the database into the shared            *)
(* RideSharingDB value.  Go iterates maps in an unspecified order: a loop   *)
(* over a map whose result can depend on the order takes the iteration     *)
(* order as an extra argument, and the handlers' actions choose it with \E.*)
(* In Spec and SpecCreate the server handles one request at a time: a      *)
(* handler runs from its first statement to its return in one step, and    *)
(* the step respond ends the request.  SpecConcurrent interleaves the      *)
(* steps of ride creations that run in different goroutines.               *)
(***************************************************************************)
EXTENDS Integers, Sequences, FiniteSets, TLC

\* ---- Sizes ------------------------------------------------------------
\* The rows initExampleDB inserts into customers and drivers
NumCustomers == 2
NumDrivers == 2
\* The largest pool (rows of proxy_numbers) and the largest number of rides
MaxProxies == 2
MaxRides == 2
\* The ride creations that can overlap
MaxGoroutines == 2

VARIABLES
    proxy_numbers,  \* table proxy_numbers: the set of row ids (the pool)
    rides,          \* table rides: sequence of rows, row id = position
    dbdata,         \* the shared in-memory RideSharingDB value
    req,            \* the request handled last
    sent,           \* the SMSes the last request sent, in order
    resp,           \* the response written for the last request
    alloc,          \* the call of getAvailableProxyNumber made by the last request
    logged,         \* the lines the last request wrote to the log, in order
    inflight        \* the ride creations in progress, one per goroutine

vars == <<proxy_numbers, rides, dbdata, req, sent, resp, alloc, logged, inflight>>

\* ---- Phone numbers ----------------------------------------------------
\* A phone number is a natural number; EmptyNumber is Go's empty string "".
EmptyNumber == 0
CustomerNumber(id) == id
DriverNumber(id) == NumCustomers + id
ProxyNumber(id) == NumCustomers + NumDrivers + id
StrangerNumber == NumCustomers + NumDrivers + MaxProxies + 1

\* ---- Zero values of the Go structs ------------------------------------
ZeroPerson == [ID |-> 0, Number |-> EmptyNumber]
ZeroProxyNumberType == [ID |-> 0, Number |-> EmptyNumber]

\* m[k] on a Go map: the zero value when the key is absent
MapGet(m, k, zero) == IF k \in DOMAIN m THEN m[k] ELSE zero

\* The iteration orders of a map with key set S
Orders(S) ==
    {o \in [1..Cardinality(S) -> S] : \A i, j \in 1..Cardinality(S) : i # j => o[i] # o[j]}

\* ---- Form values and their conversions --------------------------------
Digits == <<"0", "1", "2", "3", "4", "5", "6", "7", "8", "9">>
IsDigit(c) == \E i \in 1..Len(Digits) : Digits[i] = c
DigitVal(c) == (CHOOSE i \in 1..Len(Digits) : Digits[i] = c) - 1

RECURSIVE ParseDigits(_, _)
ParseDigits(s, acc) ==
    IF s = <<>> THEN acc ELSE ParseDigits(Tail(s), acc * 10 + DigitVal(Head(s)))

\* strconv.Atoi on a string of characters: (value, err)
Atoi(s) ==
    IF s # <<>> /\ \A i \in 1..Len(s) : IsDigit(s[i])
    THEN [val |-> ParseDigits(s, 0), err |-> FALSE]
    ELSE [val |-> 0, err |-> TRUE]

\* The form values a POST request can carry for "customer" and "driver"
\* (the ids of the rows of customers and drivers, and a text that is no integer)
FormValues == {<<Digits[i + 1]>> : i \in 1..NumCustomers} \cup {<<"x">>}

\* The same with an integer that is the id of no customer and of no driver
AnyFormValues == FormValues \cup {<<Digits[NumCustomers + 2]>>}

\* A value '%s' written to a column declared INTEGER: sqlite stores an
\* integer when the text is one, and the text otherwise.
ColumnValue(s) ==
    IF Atoi(s).err
    THEN [type |-> "text", int |-> 0, text |-> s]
    ELSE [type |-> "integer", int |-> Atoi(s).val, text |-> <<>>]

\* rows.Scan of one column into an int
ScanInt(col) ==
    IF col.type = "integer" THEN [val |-> col.int, err |-> FALSE] ELSE Atoi(col.text)

\* ---- loadDB -----------------------------------------------------------
hereCustomers == [id \in 1..NumCustomers |-> [ID |-> id, Number |-> CustomerNumber(id)]]
hereDrivers == [id \in 1..NumDrivers |-> [ID |-> id, Number |-> DriverNumber(id)]]
hereProxyNumbers(pn) == [id \in pn |-> [ID |-> id, Number |-> ProxyNumber(id)]]

\* rows4.Scan of a row of rides followed by the three lookups and NumGrp.
\* Scan assigns the columns in order and stops at the first one that does
\* not convert, leaving the later destinations at their zero value.
ScanRide(pn, id, row) ==
    LET c == ScanInt(row.customer_id)
        customerID == IF c.err THEN 0 ELSE c.val
        driverID == IF c.err THEN 0 ELSE row.driver_id
        numberID == IF c.err THEN 0 ELSE row.number_id
    IN  [ID |-> id,
         ThisCustomer |->
            [ID |-> customerID, Number |-> MapGet(hereCustomers, customerID, ZeroPerson).Number],
         ThisDriver |->
            [ID |-> driverID, Number |-> MapGet(hereDrivers, driverID, ZeroPerson).Number],
         ThisProxyNumber |->
            [ID |-> numberID,
             Number |-> MapGet(hereProxyNumbers(pn), numberID, ZeroProxyNumberType).Number],
         NumGrp |-> <<<<customerID, numberID>>, <<driverID, numberID>>>>]

loadDB(pn, rs) ==
    [Customers |-> hereCustomers,
     Drivers |-> hereDrivers,
     ProxyNumbers |-> hereProxyNumbers(pn),
     Rides |-> [id \in 1..Len(rs) |-> ScanRide(pn, id, rs[id])],
     Message |-> ""]

\* ---- getAvailableProxyNumber ------------------------------------------
\* Variant: no pair is ever found
containsNumGrp_never(arr, findme) == \E e \in arr : e = findme /\ e # findme

\* containsNumGrp: reflect.DeepEqual of findme with some element of arr
containsNumGrp(arr, findme) == \E e \in arr : e = findme

\* Variant: only the pairs of the ride stored last are collected
rideProxySets_latestRide(Rides) ==
    UNION {{Rides[k].NumGrp[i] : i \in 1..Len(Rides[k].NumGrp)} :
           k \in {j \in DOMAIN Rides : \A m \in DOMAIN Rides : m <= j}}

\* Variant: only the customer's pair of each ride is collected
rideProxySets_customerPairs(Rides) == {Rides[k].NumGrp[1] : k \in DOMAIN Rides}

\* rideProxySets: the NumGrp of every ride.  The slice is built in the
\* iteration order of dbdata.Rides and read by containsNumGrp only, which
\* asks whether some element equals findme: it is kept as the set of its
\* elements.
rideProxySets(Rides) ==
    UNION {{Rides[k].NumGrp[i] : i \in 1..Len(Rides[k].NumGrp)} : k \in DOMAIN Rides}

\* Variant: the customer's pair is not looked up
RECURSIVE firstAvailable_driverOnly(_, _, _, _, _, _)
firstAvailable_driverOnly(ProxyNumbers, pOrder, i, sets, customerID, driverID) ==
    IF i > Len(pOrder) THEN [v |-> ZeroProxyNumberType, err |-> TRUE]
    ELSE LET v2 == ProxyNumbers[pOrder[i]] IN
         IF ~containsNumGrp(sets, <<driverID, v2.ID>>)
         THEN [v |-> v2, err |-> FALSE]
         ELSE firstAvailable_driverOnly(ProxyNumbers, pOrder, i + 1, sets,
                                        customerID, driverID)

\* Variant: the driver's pair is not looked up
RECURSIVE firstAvailable_customerOnly(_, _, _, _, _, _)
firstAvailable_customerOnly(ProxyNumbers, pOrder, i, sets, customerID, driverID) ==
    IF i > Len(pOrder) THEN [v |-> ZeroProxyNumberType, err |-> TRUE]
    ELSE LET v2 == ProxyNumbers[pOrder[i]] IN
         IF ~containsNumGrp(sets, <<customerID, v2.ID>>)
         THEN [v |-> v2, err |-> FALSE]
         ELSE firstAvailable_customerOnly(ProxyNumbers, pOrder, i + 1, sets,
                                          customerID, driverID)

\* Variant: || in place of &&
RECURSIVE firstAvailable_either(_, _, _, _, _, _)
firstAvailable_either(ProxyNumbers, pOrder, i, sets, customerID, driverID) ==
    IF i > Len(pOrder) THEN [v |-> ZeroProxyNumberType, err |-> TRUE]
    ELSE LET v2 == ProxyNumbers[pOrder[i]] IN
         IF \/ ~containsNumGrp(sets, <<customerID, v2.ID>>)
            \/ ~containsNumGrp(sets, <<driverID, v2.ID>>)
         THEN [v |-> v2, err |-> FALSE]
         ELSE firstAvailable_either(ProxyNumbers, pOrder, i + 1, sets, customerID, driverID)

\* Variant: the loop gives up after the first proxy number it looks at
firstAvailable_firstOnly(ProxyNumbers, pOrder, i, sets, customerID, driverID) ==
    IF i > Len(pOrder) THEN [v |-> ZeroProxyNumberType, err |-> TRUE]
    ELSE LET v2 == ProxyNumbers[pOrder[i]] IN
         IF /\ ~containsNumGrp(sets, <<customerID, v2.ID>>)
            /\ ~containsNumGrp(sets, <<driverID, v2.ID>>)
         THEN [v |-> v2, err |-> FALSE]
         ELSE [v |-> ZeroProxyNumberType, err |-> TRUE]

\* The loop over dbdata.ProxyNumbers from position i of the iteration order
RECURSIVE firstAvailable(_, _, _, _, _, _)
firstAvailable(ProxyNumbers, pOrder, i, sets, customerID, driverID) ==
    IF i > Len(pOrder) THEN [v |-> ZeroProxyNumberType, err |-> TRUE]
    ELSE LET v2 == ProxyNumbers[pOrder[i]] IN
         IF /\ ~containsNumGrp(sets, <<customerID, v2.ID>>)
            /\ ~containsNumGrp(sets, <<driverID, v2.ID>>)
         THEN [v |-> v2, err |-> FALSE]
         ELSE firstAvailable(ProxyNumbers, pOrder, i + 1, sets, customerID, driverID)

\* Variant: a ride of an id with itself is refused
getAvailableProxyNumber_noSelf(db, customerID, driverID, pOrder) ==
    IF customerID = driverID
    THEN [v |-> ZeroProxyNumberType, err |-> TRUE]
    ELSE IF Cardinality(DOMAIN db.Rides) = 0
         THEN IF Len(pOrder) > 0
              THEN [v |-> db.ProxyNumbers[pOrder[1]], err |-> FALSE]
              ELSE [v |-> ZeroProxyNumberType, err |-> TRUE]
         ELSE firstAvailable(db.ProxyNumbers, pOrder, 1,
                             rideProxySets(db.Rides), customerID, driverID)

\* Variant: with no rides, the loop over the proxy numbers returns nothing
getAvailableProxyNumber_emptyFails(db, customerID, driverID, pOrder) ==
    IF Cardinality(DOMAIN db.Rides) = 0
    THEN [v |-> ZeroProxyNumberType, err |-> TRUE]
    ELSE firstAvailable(db.ProxyNumbers, pOrder, 1,
                        rideProxySets(db.Rides), customerID, driverID)

\* Variant: with rides, only the proxy number iterated first is tried
getAvailableProxyNumber_firstTried(db, customerID, driverID, pOrder) ==
    IF Cardinality(DOMAIN db.Rides) = 0
    THEN IF Len(pOrder) > 0
         THEN [v |-> db.ProxyNumbers[pOrder[1]], err |-> FALSE]
         ELSE [v |-> ZeroProxyNumberType, err |-> TRUE]
    ELSE firstAvailable(db.ProxyNumbers, SubSeq(pOrder, 1, 1), 1,
                        rideProxySets(db.Rides), customerID, driverID)

\* pOrder: the order in which this call iterates dbdata.ProxyNumbers
getAvailableProxyNumber(db, customerID, driverID, pOrder) ==
    IF Cardinality(DOMAIN db.Rides) = 0
    THEN IF Len(pOrder) > 0
         THEN [v |-> db.ProxyNumbers[pOrder[1]], err |-> FALSE]
         ELSE [v |-> ZeroProxyNumberType, err |-> TRUE]
    ELSE firstAvailable(db.ProxyNumbers, pOrder, 1,
                        rideProxySets(db.Rides), customerID, driverID)

checkIfCustomer(db, checkme) == \E k \in DOMAIN db.Customers : db.Customers[k].Number = checkme
checkIfDriver(db, checkme) == \E k \in DOMAIN db.Drivers : db.Drivers[k].Number = checkme

\* ---- Requests, responses ----------------------------------------------
NoForm == <<>>
Request(handler, method, customer, driver, originator, receiver) ==
    [handler |-> handler, method |-> method, customer |-> customer, driver |-> driver,
     originator |-> originator, receiver |-> receiver]

\* No request is being handled
NoRequest == Request("none", "GET", NoForm, NoForm, EmptyNumber, EmptyNumber)

\* The landing page with dbdata.Message
Page(message) == [kind |-> "page", destination |-> EmptyNumber, message |-> message]
\* The body "OK" of the SMS webhook
OK == [kind |-> "OK", destination |-> EmptyNumber, message |-> ""]
\* A handler that returns without writing a body
NoBody == [kind |-> "none", destination |-> EmptyNumber, message |-> ""]
\* <Transfer destination='%s' make='true' />
TransferXML(destination) == [kind |-> "Transfer", destination |-> destination, message |-> ""]
\* <Say ...>Sorry, we cannot identify your transaction. ...</Say><Hangup />
transactionFailXML == [kind |-> "SayHangup", destination |-> EmptyNumber, message |-> ""]

\* mbSender(mb, originator, []string{recipient}, ...)
SMS(originator, recipient) == [originator |-> originator, recipient |-> recipient]

NoAlloc ==
    [called |-> FALSE, customerID |-> 0, driverID |-> 0, Rides |-> <<>>,
     v |-> ZeroProxyNumberType, err |-> FALSE]

\* The phone numbers an inbound event can carry as its sender, and the
\* numbers it can have been received on; a request without the form value
\* for the number it was received on carries the empty string
Senders ==
    {StrangerNumber}
        \cup {CustomerNumber(id) : id \in 1..NumCustomers}
        \cup {DriverNumber(id) : id \in 1..NumDrivers}
Receivers == {EmptyNumber} \cup {ProxyNumber(id) : id \in 1..MaxProxies}

\* A line of the log: what it says and the number it names
LogLine(line, number) == [line |-> line, number |-> number]

\* A goroutine that handles no request.  Of a request in progress it keeps
\* the handler, the form values, what its loadDB() has read from the tables
\* (snapshot), the number of rides stored when it started, the proxy number
\* it was given (v) and the ids of the rides it has iterated (seen).
IdleCreation ==
    [pc |-> "idle", handler |-> "none", customerID |-> 0, driverID |-> 0,
     snapshot |-> loadDB({}, <<>>), started |-> 0,
     v |-> ZeroProxyNumberType, seen |-> {}]

Goroutines == 1..MaxGoroutines

\* ---- Init -------------------------------------------------------------
Init ==
    /\ proxy_numbers \in {1..n : n \in 0..MaxProxies}
    /\ rides = <<>>
    /\ dbdata = loadDB({}, <<>>)
    /\ req = NoRequest
    /\ sent = <<>>
    /\ resp = NoBody
    /\ alloc = NoAlloc
    /\ logged = <<>>
    /\ inflight = [g \in Goroutines |-> IdleCreation]

\* The handler has returned: the server is ready for the next request
respond ==
    /\ req # NoRequest
    /\ req' = NoRequest
    /\ sent' = <<>>
    /\ resp' = NoBody
    /\ alloc' = NoAlloc
    /\ logged' = <<>>
    /\ UNCHANGED <<proxy_numbers, rides, dbdata, inflight>>

\* ---- landing ----------------------------------------------------------
\* Variant: showing the page clears the rides
landing_clears ==
    /\ req = NoRequest
    /\ rides' = <<>>
    /\ dbdata' = loadDB(proxy_numbers, rides')
    /\ req' = Request("landing", "GET", NoForm, NoForm, EmptyNumber, EmptyNumber)
    /\ sent' = <<>>
    /\ resp' = Page(dbdata'.Message)
    /\ alloc' = NoAlloc
    /\ logged' = <<>>
    /\ UNCHANGED <<proxy_numbers, inflight>>

landing ==
    /\ req = NoRequest
    /\ dbdata' = loadDB(proxy_numbers, rides)
    /\ req' = Request("landing", "GET", NoForm, NoForm, EmptyNumber, EmptyNumber)
    /\ sent' = <<>>
    /\ resp' = Page(dbdata'.Message)
    /\ alloc' = NoAlloc
    /\ logged' = <<>>
    /\ UNCHANGED <<proxy_numbers, rides, inflight>>

\* ---- createRideHandler ------------------------------------------------
\* Variant: the ride is inserted and announced whatever err is
createRideCommit_ignoresErr(db, customerID, customerIDint, driverIDint, availableProxy) ==
    /\ alloc' = [called |-> TRUE, customerID |-> customerIDint, driverID |-> driverIDint,
                 Rides |-> db.Rides, v |-> availableProxy.v, err |-> availableProxy.err]
    /\ Len(rides) < MaxRides
    /\ rides' = Append(rides,
                       [customer_id |-> ColumnValue(customerID),
                        driver_id |-> driverIDint,
                        number_id |-> availableProxy.v.ID])
    /\ sent' = <<SMS(availableProxy.v.Number,
                     MapGet(db.Customers, customerIDint, ZeroPerson).Number),
                 SMS(availableProxy.v.Number,
                     MapGet(db.Drivers, driverIDint, ZeroPerson).Number)>>
    /\ logged' = <<>>
    /\ dbdata' = loadDB(proxy_numbers, rides')
    /\ resp' = Page(dbdata'.Message)

\* Variant: the rides of the history are moved to the proxy number returned
createRideCommit_rebinds(db, customerID, customerIDint, driverIDint, availableProxy) ==
    /\ alloc' = [called |-> TRUE, customerID |-> customerIDint, driverID |-> driverIDint,
                 Rides |-> db.Rides, v |-> availableProxy.v, err |-> availableProxy.err]
    /\ IF availableProxy.err
       THEN /\ UNCHANGED rides
            /\ dbdata' = [db EXCEPT !.Message =
                             "We encountered an error: no available proxy numbers"]
            /\ logged' = <<LogLine("no available proxy numbers", EmptyNumber)>>
            /\ sent' = <<>>
            /\ resp' = Page(dbdata'.Message)
       ELSE /\ Len(rides) < MaxRides
            /\ rides' = Append([k \in DOMAIN rides |->
                                   [rides[k] EXCEPT !.number_id = availableProxy.v.ID]],
                               [customer_id |-> ColumnValue(customerID),
                                driver_id |-> driverIDint,
                                number_id |-> availableProxy.v.ID])
            /\ sent' = <<SMS(availableProxy.v.Number,
                             MapGet(db.Customers, customerIDint, ZeroPerson).Number),
                         SMS(availableProxy.v.Number,
                             MapGet(db.Drivers, driverIDint, ZeroPerson).Number)>>
            /\ logged' = <<>>
            /\ dbdata' = loadDB(proxy_numbers, rides')
            /\ resp' = Page(dbdata'.Message)

\* The part of the handler after getAvailableProxyNumber has returned
createRideCommit(db, customerID, customerIDint, driverIDint, availableProxy) ==
    /\ alloc' = [called |-> TRUE, customerID |-> customerIDint, driverID |-> driverIDint,
                 Rides |-> db.Rides, v |-> availableProxy.v, err |-> availableProxy.err]
    /\ IF availableProxy.err
       THEN /\ UNCHANGED rides
            /\ dbdata' = [db EXCEPT !.Message =
                             "We encountered an error: no available proxy numbers"]
            /\ logged' = <<LogLine("no available proxy numbers", EmptyNumber)>>
            /\ sent' = <<>>
            /\ resp' = Page(dbdata'.Message)
       ELSE /\ Len(rides) < MaxRides
            /\ rides' = Append(rides,
                               [customer_id |-> ColumnValue(customerID),
                                driver_id |-> driverIDint,
                                number_id |-> availableProxy.v.ID])
            /\ sent' = <<SMS(availableProxy.v.Number,
                             MapGet(db.Customers, customerIDint, ZeroPerson).Number),
                         SMS(availableProxy.v.Number,
                             MapGet(db.Drivers, driverIDint, ZeroPerson).Number)>>
            /\ logged' = <<>>
            /\ dbdata' = loadDB(proxy_numbers, rides')
            /\ resp' = Page(dbdata'.Message)

\* db: *dbdata after the loadDB() that opens the handler.
\* The err of the first strconv.Atoi is overwritten by the second: only the
\* driver's conversion is tested.
createRideHandler(db, method, customerID, driverID, pOrder) ==
    /\ req' = Request("createRide", method, customerID, driverID, EmptyNumber, EmptyNumber)
    /\ UNCHANGED <<proxy_numbers, inflight>>
    /\ IF method # "POST"
       THEN /\ UNCHANGED rides
            /\ dbdata' = db
            /\ sent' = <<>>
            /\ resp' = Page(dbdata'.Message)
            /\ alloc' = NoAlloc
            /\ logged' = <<>>
       ELSE IF Atoi(driverID).err
       THEN /\ UNCHANGED rides
            /\ dbdata' = [db EXCEPT !.Message = "Something went wrong"]
            /\ sent' = <<>>
            /\ resp' = Page(dbdata'.Message)
            /\ alloc' = NoAlloc
            /\ logged' = <<>>
       ELSE \E availableProxy \in {getAvailableProxyNumber(
                    db, Atoi(customerID).val, Atoi(driverID).val, pOrder)} :
                createRideCommit(db, customerID, Atoi(customerID).val,
                                 Atoi(driverID).val, availableProxy)

\* A request that is no POST has its form left unread
createRideFrom(values) ==
    /\ req = NoRequest
    /\ \E db \in {loadDB(proxy_numbers, rides)} :
          \/ \E pOrder \in Orders(proxy_numbers) :
                \E customerID \in values, driverID \in values :
                    createRideHandler(db, "POST", customerID, driverID, pOrder)
          \/ createRideHandler(db, "GET", NoForm, NoForm, <<>>)

createRide == createRideFrom(FormValues)

\* A request that is no POST and carries the values of a ride in its
\* query string, which r.FormValue would read
createRideGet ==
    /\ req = NoRequest
    /\ \E db \in {loadDB(proxy_numbers, rides)} :
          \E pOrder \in Orders(proxy_numbers) :
              \E customerID \in FormValues, driverID \in FormValues :
                  createRideHandler(db, "GET", customerID, driverID, pOrder)

\* Ride creation with an id of no row among the form values
createRideAny == createRideFrom(AnyFormValues)

\* ---- messageHookHandler -----------------------------------------------
\* The loop over dbdata.Rides from position i of the iteration order:
\* the SMSes sent, the response written and the lines logged
RECURSIVE messageLoop(_, _, _, _, _)
messageLoop(db, rOrder, i, originator, receiver) ==
    IF i > Len(rOrder) THEN [sent |-> <<>>, resp |-> OK, logged |-> <<>>]
    ELSE LET v == db.Rides[rOrder[i]]
             rest == messageLoop(db, rOrder, i + 1, originator, receiver)
         IN
         IF v.ThisProxyNumber.Number = receiver
         THEN IF checkIfCustomer(db, originator)
              THEN [sent |-> <<SMS(receiver, v.ThisDriver.Number)>>, resp |-> NoBody,
                    logged |-> <<>>]
              ELSE IF checkIfDriver(db, originator)
              THEN [sent |-> <<SMS(receiver, v.ThisCustomer.Number)>>, resp |-> NoBody,
                    logged |-> <<>>]
              ELSE [rest EXCEPT !.logged =
                       <<LogLine("Could not find ride for customer/driver", originator)>>
                           \o rest.logged]
         ELSE [rest EXCEPT !.logged =
                  <<LogLine("Unknown proxy number", receiver)>> \o rest.logged]

\* Variant: the method is not tested
messageHookHandler_anyMethod(db, method, originator, receiver, rOrder) ==
    \E out \in {messageLoop(db, rOrder, 1, originator, receiver)} :
        /\ req' = Request("messageHook", method, NoForm, NoForm, originator, receiver)
        /\ dbdata' = db
        /\ sent' = out.sent
        /\ resp' = out.resp
        /\ logged' = out.logged
        /\ alloc' = NoAlloc
        /\ UNCHANGED <<proxy_numbers, rides, inflight>>

\* Variant: a ride is dropped once a message has been relayed
messageHookHandler_consumes(db, method, originator, receiver, rOrder) ==
    \E out \in {IF method = "POST"
                THEN messageLoop(db, rOrder, 1, originator, receiver)
                ELSE [sent |-> <<>>, resp |-> NoBody, logged |-> <<>>]} :
        /\ req' = Request("messageHook", method, NoForm, NoForm, originator, receiver)
        /\ dbdata' = db
        /\ sent' = out.sent
        /\ resp' = out.resp
        /\ logged' = out.logged
        /\ alloc' = NoAlloc
        /\ rides' = IF out.sent = <<>> THEN rides ELSE SubSeq(rides, 1, Len(rides) - 1)
        /\ UNCHANGED <<proxy_numbers, inflight>>

\* db: *dbdata after the loadDB() that opens the handler
messageHookHandler(db, method, originator, receiver, rOrder) ==
    \E out \in {IF method = "POST"
                THEN messageLoop(db, rOrder, 1, originator, receiver)
                ELSE [sent |-> <<>>, resp |-> NoBody, logged |-> <<>>]} :
        /\ req' = Request("messageHook", method, NoForm, NoForm, originator, receiver)
        /\ dbdata' = db
        /\ sent' = out.sent
        /\ resp' = out.resp
        /\ logged' = out.logged
        /\ alloc' = NoAlloc
        /\ UNCHANGED <<proxy_numbers, rides, inflight>>

messageHook ==
    /\ req = NoRequest
    /\ \E db \in {loadDB(proxy_numbers, rides)} :
          \/ \E rOrder \in Orders(1..Len(rides)) :
                \E originator \in Senders, receiver \in Receivers :
                    messageHookHandler(db, "POST", originator, receiver, rOrder)
          \/ messageHookHandler(db, "GET", EmptyNumber, EmptyNumber, <<>>)

\* A webhook request that is no POST and carries the values of an SMS
messageHookGet ==
    /\ req = NoRequest
    /\ \E db \in {loadDB(proxy_numbers, rides)} :
          \E rOrder \in Orders(1..Len(rides)) :
              \E originator \in Senders, receiver \in Receivers :
                  messageHookHandler(db, "GET", originator, receiver, rOrder)

\* ---- voiceHookHandler -------------------------------------------------
\* The loop over dbdata.Rides from position i of the iteration order, with
\* the current value of forwardToThisNumber: the response written and the
\* line logged
RECURSIVE voiceLoop(_, _, _, _, _, _)
voiceLoop(db, rOrder, i, caller, proxyNumber, forwardToThisNumber) ==
    LET fail == [resp |-> transactionFailXML,
                 logged |-> <<LogLine("Transfer failed", forwardToThisNumber)>>]
    IN
    IF i > Len(rOrder)
    THEN [resp |-> TransferXML(forwardToThisNumber),
          logged |-> <<LogLine("Transferring call", forwardToThisNumber)>>]
    ELSE LET v == db.Rides[rOrder[i]] IN
         IF v.ThisProxyNumber.Number = proxyNumber
         THEN IF checkIfCustomer(db, caller)
              THEN voiceLoop(db, rOrder, i + 1, caller, proxyNumber, v.ThisDriver.Number)
              ELSE IF checkIfDriver(db, caller)
              THEN voiceLoop(db, rOrder, i + 1, caller, proxyNumber, v.ThisCustomer.Number)
              ELSE fail
         ELSE fail

\* db: *dbdata after the loadDB() that opens the handler.
\* The voice webhook does not read the method.
voiceHookHandler(db, caller, proxyNumber, rOrder) ==
    \E out \in {voiceLoop(db, rOrder, 1, caller, proxyNumber, EmptyNumber)} :
        /\ req' = Request("voiceHook", "GET", NoForm, NoForm, caller, proxyNumber)
        /\ dbdata' = db
        /\ sent' = <<>>
        /\ resp' = out.resp
        /\ logged' = out.logged
        /\ alloc' = NoAlloc
        /\ UNCHANGED <<proxy_numbers, rides, inflight>>

voiceHook ==
    /\ req = NoRequest
    /\ \E db \in {loadDB(proxy_numbers, rides)} :
          \E rOrder \in Orders(1..Len(rides)) :
              \E caller \in Senders, proxyNumber \in Receivers :
                  voiceHookHandler(db, caller, proxyNumber, rOrder)

\* ---- Handlers in different goroutines ---------------------------------
\* net/http runs every request in a goroutine of its own, and the handlers
\* share *dbdata and the database without a lock.  A handler is cut here
\* where another goroutine can come in between: loadDB() reads the tables
\* into maps of its own and assigns them to *dbdata as its last statement;
\* the handler then reads the shared *dbdata; a ride creation calls
\* dbInsert() and then mbSender() twice.  The form values of the requests
\* are ids of the example rows.

\* loadDB() up to its last statement, at the start of a ride creation
createRideLoad(g, customerID, driverID) ==
    /\ inflight[g].pc = "idle"
    /\ inflight' = [inflight EXCEPT ![g] =
                       [IdleCreation EXCEPT !.pc = "queried", !.handler = "createRide",
                                            !.customerID = customerID,
                                            !.driverID = driverID,
                                            !.snapshot = loadDB(proxy_numbers, rides),
                                            !.started = Len(rides)]]
    /\ UNCHANGED <<proxy_numbers, rides, dbdata, req, sent, resp, alloc, logged>>

\* loadDB() up to its last statement, at the start of an inbound SMS
messageHookLoad(g) ==
    /\ inflight[g].pc = "idle"
    /\ inflight' = [inflight EXCEPT ![g] =
                       [IdleCreation EXCEPT !.pc = "queried", !.handler = "messageHook",
                                            !.snapshot = loadDB(proxy_numbers, rides),
                                            !.started = Len(rides)]]
    /\ UNCHANGED <<proxy_numbers, rides, dbdata, req, sent, resp, alloc, logged>>

\* *dbdata = RideSharingDB{...}, the last statement of loadDB()
loadDBAssign(g) ==
    /\ inflight[g].pc = "queried"
    /\ dbdata' = inflight[g].snapshot
    /\ inflight' = [inflight EXCEPT ![g].pc = "loaded"]
    /\ UNCHANGED <<proxy_numbers, rides, req, sent, resp, alloc, logged>>

createRideAllocate(g, pOrder) ==
    /\ inflight[g].pc = "loaded" /\ inflight[g].handler = "createRide"
    /\ \E availableProxy \in {getAvailableProxyNumber(
              dbdata, inflight[g].customerID, inflight[g].driverID, pOrder)} :
          IF availableProxy.err
          THEN /\ dbdata' = [dbdata EXCEPT !.Message =
                                "We encountered an error: no available proxy numbers"]
               /\ inflight' = [inflight EXCEPT ![g].pc = "failed"]
          ELSE /\ UNCHANGED dbdata
               /\ inflight' = [inflight EXCEPT ![g].pc = "allocated",
                                               ![g].v = availableProxy.v]
    /\ UNCHANGED <<proxy_numbers, rides, req, sent, resp, alloc, logged>>

\* renderDefaultTemplate(w, "views/landing.gohtml", dbdata) after the
\* allocator has failed: the page shows the Message of the shared dbdata
createRideRender(g) ==
    /\ inflight[g].pc = "failed"
    /\ resp' = Page(dbdata.Message)
    /\ inflight' = [inflight EXCEPT ![g] = IdleCreation]
    /\ UNCHANGED <<proxy_numbers, rides, dbdata, req, sent, alloc, logged>>

createRideInsert(g) ==
    /\ inflight[g].pc = "allocated"
    /\ Len(rides) < MaxRides
    /\ rides' = Append(rides,
                       [customer_id |-> [type |-> "integer", int |-> inflight[g].customerID,
                                         text |-> <<>>],
                        driver_id |-> inflight[g].driverID,
                        number_id |-> inflight[g].v.ID])
    /\ inflight' = [inflight EXCEPT ![g].pc = "inserted"]
    /\ UNCHANGED <<proxy_numbers, dbdata, req, sent, resp, alloc, logged>>

\* The two mbSender calls, then the loadDB() that closes the handler
createRideNotify(g) ==
    /\ inflight[g].pc = "inserted"
    /\ sent' = <<SMS(inflight[g].v.Number,
                     MapGet(dbdata.Customers, inflight[g].customerID, ZeroPerson).Number),
                 SMS(inflight[g].v.Number,
                     MapGet(dbdata.Drivers, inflight[g].driverID, ZeroPerson).Number)>>
    /\ dbdata' = loadDB(proxy_numbers, rides)
    /\ inflight' = [inflight EXCEPT ![g] = IdleCreation]
    /\ UNCHANGED <<proxy_numbers, rides, req, resp, alloc, logged>>

\* The loop of the SMS webhook over the shared dbdata.Rides
messageHookResolve(g) ==
    /\ inflight[g].pc = "loaded" /\ inflight[g].handler = "messageHook"
    /\ inflight' = [inflight EXCEPT ![g].pc = "resolved",
                                    ![g].seen = DOMAIN dbdata.Rides]
    /\ UNCHANGED <<proxy_numbers, rides, dbdata, req, sent, resp, alloc, logged>>

messageHookReturn(g) ==
    /\ inflight[g].pc = "resolved"
    /\ inflight' = [inflight EXCEPT ![g] = IdleCreation]
    /\ UNCHANGED <<proxy_numbers, rides, dbdata, req, sent, resp, alloc, logged>>

createRideStep(g) ==
    \/ \E customerID \in 1..NumCustomers, driverID \in 1..NumDrivers :
          createRideLoad(g, customerID, driverID)
    \/ inflight[g].handler = "createRide" /\ loadDBAssign(g)
    \/ \E pOrder \in Orders(proxy_numbers) : createRideAllocate(g, pOrder)
    \/ createRideRender(g)
    \/ createRideInsert(g)
    \/ createRideNotify(g)

messageHookStep(g) ==
    \/ messageHookLoad(g)
    \/ inflight[g].handler = "messageHook" /\ loadDBAssign(g)
    \/ messageHookResolve(g)
    \/ messageHookReturn(g)

\* ---- Specification ----------------------------------------------------
Next == landing \/ createRide \/ messageHook \/ voiceHook \/ respond

Spec == Init /\ [][Next]_vars

\* Ride creation alone: the inbound webhooks never write to the database
NextCreate == landing \/ createRide \/ respond

SpecCreate == Init /\ [][NextCreate]_vars

\* Ride creation alone, ids of no row included
NextCreateAny == landing \/ createRideAny \/ respond

SpecCreateAny == Init /\ [][NextCreateAny]_vars

\* Ride creation and the SMS webhook, with requests that are no POST
\* carrying values
NextMethods ==
    landing \/ createRide \/ createRideGet \/ messageHook \/ messageHookGet \/ respond

SpecMethods == Init /\ [][NextMethods]_vars

\* Requests that overlap
NextConcurrent == \E g \in Goroutines : createRideStep(g) \/ messageHookStep(g)

SpecConcurrent == Init /\ [][NextConcurrent]_vars

\* ======================================================================
\* Properties
\* ======================================================================

\* The pairings: the rides as every handler sees them after loadDB
Pairings == loadDB(proxy_numbers, rides).Rides

\* The identities of a pairing
Identities(r) == {r.ThisCustomer.ID, r.ThisDriver.ID}

\* A pairing is bound to a proxy number when its number_id is a row of
\* proxy_numbers
BoundToPool(r) == r.ThisProxyNumber.ID \in proxy_numbers

InboundSMS == req.handler = "messageHook" /\ req.method = "POST"
InboundCall == req.handler = "voiceHook"
Inbound == InboundSMS \/ InboundCall

\* The pairings bound to the proxy number an event came in on
BoundTo(number) ==
    {k \in DOMAIN Pairings :
        /\ BoundToPool(Pairings[k])
        /\ Pairings[k].ThisProxyNumber.Number = number}

IsParty(k, number) ==
    /\ number # EmptyNumber
    /\ number \in {Pairings[k].ThisCustomer.Number, Pairings[k].ThisDriver.Number}

Counterparty(k, number) ==
    IF number = Pairings[k].ThisCustomer.Number
    THEN Pairings[k].ThisDriver.Number
    ELSE Pairings[k].ThisCustomer.Number

\* The last event was forwarded to this number
ForwardedTo(number) ==
    \/ InboundSMS /\ sent = <<SMS(req.receiver, number)>>
    \/ InboundCall /\ resp = TransferXML(number)

\* The last event was not forwarded: no SMS, the failure call flow
NotForwarded ==
    /\ InboundSMS => sent = <<>>
    /\ InboundCall => resp = transactionFailXML

\* C2: when several pairings are bound to the proxy number an SMS or call
\* comes in on and the sender is a party of one of them, the event is
\* forwarded to the other party of a pairing the sender belongs to, never to
\* a party of another pairing on that proxy number.
C2_SpecificPairing ==
    (/\ Inbound
     /\ Cardinality(BoundTo(req.receiver)) >= 2
     /\ \E k \in BoundTo(req.receiver) : IsParty(k, req.originator))
    => \E k \in BoundTo(req.receiver) :
          /\ IsParty(k, req.originator)
          /\ ForwardedTo(Counterparty(k, req.originator))

\* C3 (round trip): for every pairing (A, B, P), an event (P, A) is
\* forwarded to B and an event (P, B) to A, by SMS and by voice.
C3_RoundTrip ==
    Inbound =>
        \A k \in BoundTo(req.receiver) :
            IsParty(k, req.originator) => ForwardedTo(Counterparty(k, req.originator))

\* C4 (unrecognized sender): an event on a proxy number bound to a pairing,
\* from a number that is a party of no pairing bound to it, is not forwarded.
C4_UnrecognizedSender ==
    (/\ Inbound
     /\ BoundTo(req.receiver) # {}
     /\ \A k \in BoundTo(req.receiver) : ~IsParty(k, req.originator))
    => NotForwarded

\* C5 (unknown proxy): an event on a proxy number bound to no pairing sends
\* no SMS and is answered with the failure call flow, never a Transfer.
C5_UnknownProxy ==
    (Inbound /\ BoundTo(req.receiver) = {}) => NotForwarded

\* C6 (resolution scans all pairings): a call on a proxy number from a party
\* of a pairing bound to it is transferred to that pairing's other party,
\* whatever other pairings the history holds and wherever the pairing comes
\* in the scan.
C6_VoiceScansAll ==
    InboundCall =>
        \A k \in BoundTo(req.receiver) :
            IsParty(k, req.originator) => resp = TransferXML(Counterparty(k, req.originator))

\* ---- The allocator ----------------------------------------------------
\* The flattened binding set of the history the last call ran on
BindingSet ==
    UNION {{<<alloc.Rides[k].ThisCustomer.ID, alloc.Rides[k].ThisProxyNumber.ID>>,
            <<alloc.Rides[k].ThisDriver.ID, alloc.Rides[k].ThisProxyNumber.ID>>} :
           k \in DOMAIN alloc.Rides}

\* The pool the last call ran on
Pool == {[ID |-> id, Number |-> ProxyNumber(id)] : id \in proxy_numbers}

ConflictFree(v) ==
    /\ <<alloc.customerID, v.ID>> \notin BindingSet
    /\ <<alloc.driverID, v.ID>> \notin BindingSet

\* C7 (soundness): a proxy number returned on a non-empty history is a member
\* of the pool and neither (customerID, v.ID) nor (driverID, v.ID) is in the
\* flattened binding set of the history.
C7_AllocateSound ==
    (alloc.called /\ ~alloc.err /\ DOMAIN alloc.Rides # {})
    => (alloc.v \in Pool /\ ConflictFree(alloc.v))

\* A call returned a proxy number that a ride of the history already uses
C7_Witness ==
    /\ alloc.called /\ ~alloc.err
    /\ \E k \in DOMAIN alloc.Rides : alloc.Rides[k].ThisProxyNumber.ID = alloc.v.ID

\* C8 (completeness): the call fails exactly when no member of the pool is
\* conflict-free (on an empty history: exactly when the pool is empty).
C8_AllocateComplete ==
    alloc.called => (alloc.err <=> ~\E v \in Pool : ConflictFree(v))

\* A call failed although the pool is not empty
C8_Witness == alloc.called /\ alloc.err /\ Pool # {} /\ DOMAIN alloc.Rides # {}

\* C9 (empty history): on an empty history and a non-empty pool the call
\* succeeds and returns a member of the pool.
C9_EmptyHistory ==
    (alloc.called /\ DOMAIN alloc.Rides = {} /\ Pool # {})
    => (~alloc.err /\ alloc.v \in Pool)

\* A call on an empty history and a pool of more than one proxy number
C9_Witness ==
    alloc.called /\ DOMAIN alloc.Rides = {} /\ Cardinality(Pool) > 1 /\ ~alloc.err

\* The history the last call ran on is one pairing, on the pool's only
\* proxy number
OnePairingOneProxy ==
    /\ alloc.called
    /\ Cardinality(Pool) = 1
    /\ DOMAIN alloc.Rides = {1}
    /\ alloc.Rides[1].ThisProxyNumber.ID \in proxy_numbers

C14_ConcurrentNoCollision ==
    \A i, j \in DOMAIN Pairings :
        (/\ i # j
         /\ BoundToPool(Pairings[i])
         /\ \/ Pairings[i].ThisCustomer.ID = Pairings[j].ThisCustomer.ID
            \/ Pairings[i].ThisDriver.ID = Pairings[j].ThisDriver.ID)
        => Pairings[i].ThisProxyNumber.ID # Pairings[j].ThisProxyNumber.ID

\* The history of the last call holds the ride (customer c, driver d) on the
\* proxy number v as its row k
Committed(k, c, d, v) ==
    /\ k \in DOMAIN alloc.Rides
    /\ alloc.Rides[k].ThisCustomer.ID = c
    /\ alloc.Rides[k].ThisDriver.ID = d
    /\ alloc.Rides[k].ThisProxyNumber.ID = v

\* The last call was made for (customer c, driver d)
AllocateFor(c, d) == alloc.called /\ alloc.customerID = c /\ alloc.driverID = d

\* C11 (rotation): for customers A, B and drivers C, D, with (A, C) committed
\* on V1, the call for (A, D) fails on the pool {V1} and returns V2 on the
\* pool {V1, V2}; with (A, D) then committed on V2, the call for (B, D) on
\* the pool {V1, V2} returns V1.
C11_Rotation ==
    \A A, B \in 1..NumCustomers, C, D \in 1..NumDrivers, V1, V2 \in 1..MaxProxies :
        (A # B /\ C # D /\ V1 # V2) =>
            /\ (/\ AllocateFor(A, D)
                /\ DOMAIN alloc.Rides = {1} /\ Committed(1, A, C, V1)
                /\ proxy_numbers = {V1})
               => alloc.err
            /\ (/\ AllocateFor(A, D)
                /\ DOMAIN alloc.Rides = {1} /\ Committed(1, A, C, V1)
                /\ proxy_numbers = {V1, V2})
               => (~alloc.err /\ alloc.v.ID = V2)
            /\ (/\ AllocateFor(B, D)
                /\ DOMAIN alloc.Rides = {1, 2}
                /\ Committed(1, A, C, V1) /\ Committed(2, A, D, V2)
                /\ proxy_numbers = {V1, V2})
               => (~alloc.err /\ alloc.v.ID = V1)

\* No ride of the history has customer alloc.customerID as its customer, or
\* driver alloc.driverID as its driver, on the proxy number v
RoleFree(v) ==
    \A k \in DOMAIN alloc.Rides :
        alloc.Rides[k].ThisProxyNumber.ID = v.ID
        => (/\ alloc.Rides[k].ThisCustomer.ID # alloc.customerID
            /\ alloc.Rides[k].ThisDriver.ID # alloc.driverID)

\* C12 (role-qualified reuse): a call succeeds whenever some proxy number of
\* the pool has been used neither by the customer, as a customer, nor by the
\* driver, as a driver, even when the customer's id is the id of a driver,
\* or the driver's id the id of a customer, bound to that proxy number.
C12_RoleQualifiedReuse ==
    (alloc.called /\ \E v \in Pool : RoleFree(v)) => ~alloc.err


\* C13: a ride creation whose call fails with "no available proxy numbers"
\* leaves the rides and the pool as they were, sends no SMS and answers with
\* the page carrying the failure as its message; the server then takes the
\* next request.
C13_FailureSurfaced ==
    /\ [][(alloc'.called /\ alloc'.err) =>
             /\ rides' = rides
             /\ proxy_numbers' = proxy_numbers
             /\ sent' = <<>>
             /\ resp' = Page("We encountered an error: no available proxy numbers")
             /\ dbdata'.Rides = alloc'.Rides]_vars
    /\ []((alloc.called /\ alloc.err) => ENABLED respond)

\* A ride creation failed on a history that is not empty
C13_Witness ==
    /\ req.handler = "createRide" /\ alloc.called /\ alloc.err
    /\ Len(rides) > 0
    /\ resp.kind = "page" /\ resp.message # ""

\* C15 (the call is pure): the history handed to the call is the one the
\* store held; after a call that fails the pool, the rides and every ride
\* loaded from them are as before; after a call that succeeds the pool and
\* every earlier ride, its pairs included, are as before and the only change
\* is the one row the handler appends for the proxy number returned.
C15_AllocatePure ==
    [][alloc'.called =>
          /\ proxy_numbers' = proxy_numbers
          /\ alloc'.Rides = loadDB(proxy_numbers, rides).Rides
          /\ dbdata'.ProxyNumbers = loadDB(proxy_numbers, rides).ProxyNumbers
          /\ \A k \in DOMAIN alloc'.Rides :
                k \in DOMAIN dbdata'.Rides /\ dbdata'.Rides[k] = alloc'.Rides[k]
          /\ IF alloc'.err
             THEN rides' = rides
             ELSE /\ Len(rides') = Len(rides) + 1
                  /\ SubSeq(rides', 1, Len(rides)) = rides
                  /\ rides'[Len(rides')].number_id = alloc'.v.ID]_vars

\* A call succeeded on a history that is not empty and its ride was added
C15_Witness ==
    /\ alloc.called /\ ~alloc.err
    /\ DOMAIN alloc.Rides # {}
    /\ Len(rides) = Cardinality(DOMAIN alloc.Rides) + 1

\* What the SMS webhook does with an event is what the loop over the rides
\* of db, the tables as loaded, gives in some iteration order
SMSOutcome(db, method, originator, receiver, out) ==
    IF method # "POST" THEN out = [sent |-> <<>>, resp |-> NoBody, logged |-> <<>>]
    ELSE \E rOrder \in Orders(DOMAIN db.Rides) :
             out = messageLoop(db, rOrder, 1, originator, receiver)

\* What the voice webhook does with a call likewise
CallOutcome(db, caller, proxyNumber, out) ==
    \E rOrder \in Orders(DOMAIN db.Rides) :
        out = voiceLoop(db, rOrder, 1, caller, proxyNumber, EmptyNumber)

\* C16: handling an inbound SMS or call leaves the rides, the pool, the
\* customers and the drivers as they were, and what the handler does is one
\* of the outcomes the tables and (number used, sender) give, whatever the
\* requests before it were.
C16_InboundReadsOnly ==
    /\ [][(req = NoRequest /\ req'.handler \in {"messageHook", "voiceHook"}) =>
             /\ rides' = rides
             /\ proxy_numbers' = proxy_numbers
             /\ req'.handler = "messageHook" =>
                   SMSOutcome(dbdata', req'.method, req'.originator, req'.receiver,
                              [sent |-> sent', resp |-> resp', logged |-> logged'])
             /\ req'.handler = "voiceHook" =>
                   /\ sent' = <<>>
                   /\ CallOutcome(dbdata', req'.originator, req'.receiver,
                                  [resp |-> resp', logged |-> logged'])]_vars
    /\ [](req.handler \in {"messageHook", "voiceHook"}
             => dbdata = loadDB(proxy_numbers, rides))

\* A message was relayed with more than one ride in the history
C16_Witness == InboundSMS /\ sent # <<>> /\ Len(rides) > 1

\* C17 (append-only history): no step of any handler removes a ride or
\* changes the customer, the driver or the proxy number of a ride that is
\* already stored, in the table or as the handlers load it.
C17_AppendOnly ==
    [][\/ UNCHANGED <<rides, proxy_numbers>>
       \/ /\ Len(rides') >= Len(rides)
          /\ SubSeq(rides', 1, Len(rides)) = rides
          /\ \A k \in DOMAIN Pairings :
                k \in DOMAIN Pairings' /\ Pairings'[k] = Pairings[k]]_vars

\* The landing page was shown with more than one ride in the history
C17_Witness == req.handler = "landing" /\ Len(rides) > 1

\* C18 (voice response shapes): the answer to a call is either the failure
\* call flow or a Transfer whose destination is the phone number, not empty,
\* of a party of a ride bound to the number called.
C18_VoiceShapes ==
    InboundCall =>
        \/ resp = transactionFailXML
        \/ /\ resp.kind = "Transfer"
           /\ resp.destination # EmptyNumber
           /\ \E k \in BoundTo(req.receiver) :
                 resp.destination \in {Pairings[k].ThisCustomer.Number,
                                       Pairings[k].ThisDriver.Number}

\* The handler wrote this line to the log
Logged(line) == \E i \in DOMAIN logged : logged[i].line = line

\* How each path reports the two kinds of failure.  The SMS webhook has one
\* log line for each; the voice webhook has the failure call flow and the
\* line "Transfer to ... failed." for both.
ReportedUnknownProxy ==
    \/ InboundSMS /\ Logged("Unknown proxy number")
    \/ InboundCall /\ resp = transactionFailXML /\ Logged("Transfer failed")
ReportedUnrecognizedSender ==
    \/ InboundSMS /\ Logged("Could not find ride for customer/driver")
    \/ InboundCall /\ resp = transactionFailXML /\ Logged("Transfer failed")

\* C19 (failure taxonomy): an SMS or call that is not forwarded is reported
\* as an unknown proxy number exactly when no ride is bound to the number
\* used, and as an unrecognized sender exactly when some ride is bound to it
\* and the sender is a party of none of them; never as both.
C19_FailureTaxonomy ==
    (Inbound /\ NotForwarded) =>
        /\ ReportedUnknownProxy <=> BoundTo(req.receiver) = {}
        /\ ReportedUnrecognizedSender <=>
              (/\ BoundTo(req.receiver) # {}
               /\ \A k \in BoundTo(req.receiver) : ~IsParty(k, req.originator))
        /\ ~(ReportedUnknownProxy /\ ReportedUnrecognizedSender)

\* The phone numbers of the pool
PoolNumbers == {ProxyNumber(id) : id \in proxy_numbers}

\* C20 (masking): every SMS sent, for a new ride or as a relay, has a number
\* of the pool as its originator, and a relayed SMS has the number the
\* inbound SMS was received on.
C20_Masking ==
    \A i \in DOMAIN sent :
        /\ sent[i].originator \in PoolNumbers
        /\ InboundSMS => sent[i].originator = req.receiver

\* The last request was a ride creation that was given a proxy number
RideCreated == req.handler = "createRide" /\ alloc.called /\ ~alloc.err

\* The ride the last request stored, as the handlers load it
NewPairing == Pairings[Len(rides)]

\* C21 (notifications): a ride creation that succeeds sends two SMSes, one
\* to the phone number of the customer of the new ride and one to the phone
\* number of its driver, both from the proxy number of the new ride.
C21_TwoNotifications ==
    RideCreated =>
        sent = <<SMS(NewPairing.ThisProxyNumber.Number, NewPairing.ThisCustomer.Number),
                 SMS(NewPairing.ThisProxyNumber.Number, NewPairing.ThisDriver.Number)>>

\* The rides bound to a proxy number that have this phone number as the
\* number of their customer or of their driver
RoutesFor(number, sender) == {k \in BoundTo(number) : IsParty(k, sender)}

C23_SeesStoredRides ==
    \A g \in Goroutines :
        inflight[g].pc = "resolved" => (1..inflight[g].started) \subseteq inflight[g].seen

\* The notifications of the ride creation of goroutine g have been sent
Notified(g) ==
    /\ Len(sent) = 2
    /\ \A i \in DOMAIN sent : sent[i].originator = inflight[g].v.Number
    /\ sent[2].recipient = DriverNumber(inflight[g].driverID)

\* C24 (notify, then store): in a ride creation the SMSes to the customer
\* and to the driver are sent before the ride is written to the database.
C24_NotifyBeforeInsert ==
    [][\A g \in Goroutines :
          (inflight[g].pc = "allocated" /\ inflight'[g].pc = "inserted" /\ rides' # rides)
          => Notified(g)]_vars

\* C25 (one Resolve for both paths): on the same rides, iterated in the same
\* order, and for the same number used and sender, the SMS webhook forwards
\* to a phone number exactly when the voice webhook transfers to it, and
\* forwards nothing exactly when the voice webhook answers with the failure
\* call flow.
C25_SameResolve ==
    \A db \in {loadDB(proxy_numbers, rides)} :
        \A rOrder \in Orders(DOMAIN db.Rides), originator \in Senders, receiver \in Receivers :
            \A s \in {messageLoop(db, rOrder, 1, originator, receiver)},
               v \in {voiceLoop(db, rOrder, 1, originator, receiver, EmptyNumber)} :
                /\ \A X \in Senders :
                      s.sent = <<SMS(receiver, X)>> <=> v.resp = TransferXML(X)
                /\ s.sent = <<>> <=> v.resp = transactionFailXML

\* C26: an inbound SMS causes at most one outbound SMS, whose recipient is
\* the customer's or the driver's phone number of a ride bound to the number
\* the SMS was received on; none when no ride is bound to that number.
C26_AtMostOneRelay ==
    InboundSMS =>
        /\ Len(sent) <= 1
        /\ \A i \in DOMAIN sent :
              \E k \in BoundTo(req.receiver) :
                  sent[i].recipient \in {Pairings[k].ThisCustomer.Number,
                                         Pairings[k].ThisDriver.Number}

\* What the last call was given: the pool and the history
AllocDB ==
    [Customers |-> hereCustomers, Drivers |-> hereDrivers,
     ProxyNumbers |-> hereProxyNumbers(proxy_numbers), Rides |-> alloc.Rides,
     Message |-> ""]

\* What the last call returns when it iterates the pool in this order
AllocateIn(pOrder) ==
    getAvailableProxyNumber(AllocDB, alloc.customerID, alloc.driverID, pOrder)

\* C27 (the outcome of a call does not depend on the iteration order): in
\* every order of the pool the call fails, or succeeds, as it did, and every
\* proxy number it can return is of the pool and conflict-free.
C27_AllocateOrderFree ==
    alloc.called =>
        \A pOrder \in Orders(proxy_numbers) :
            \A r \in {AllocateIn(pOrder)} :
                /\ r.err = alloc.err
                /\ ~r.err => (r.v \in Pool /\ ConflictFree(r.v))

\* A call on a history that is not empty returns another proxy number in
\* another order
C27_Witness ==
    /\ alloc.called /\ ~alloc.err /\ DOMAIN alloc.Rides # {}
    /\ \E pOrder \in Orders(proxy_numbers) : AllocateIn(pOrder).v # alloc.v

\* C28 (the outcome of a resolution does not depend on the iteration order):
\* for the rides stored and an inbound (number used, sender), the SMS webhook
\* sends the same SMS, and the voice webhook writes the same response, in
\* every order in which dbdata.Rides can be iterated.
C28_ResolveOrderFree ==
    \A db \in {loadDB(proxy_numbers, rides)} :
        \A originator \in Senders, receiver \in Receivers :
            \A r1, r2 \in Orders(DOMAIN db.Rides) :
                /\ messageLoop(db, r1, 1, originator, receiver).sent
                       = messageLoop(db, r2, 1, originator, receiver).sent
                /\ voiceLoop(db, r1, 1, originator, receiver, EmptyNumber).resp
                       = voiceLoop(db, r2, 1, originator, receiver, EmptyNumber).resp

\* C29 (ids that are no integers): a ride creation whose customer or driver
\* value is not an integer ends with an error message, stores no ride and
\* sends no SMS.
C29_RejectsNonInteger ==
    [][(/\ req'.handler = "createRide" /\ req'.method = "POST"
        /\ (Atoi(req'.customer).err \/ Atoi(req'.driver).err))
       => (/\ rides' = rides
           /\ sent' = <<>>
           /\ resp'.kind = "page" /\ resp'.message # "")]_vars

\* C30 (references): every ride stored names a row of customers, a row of
\* drivers and a row of proxy_numbers; a request with the id of no customer
\* or of no driver stores nothing.
C30_ReferencesExist ==
    \A k \in DOMAIN rides :
        /\ rides[k].customer_id.type = "integer"
        /\ rides[k].customer_id.int \in DOMAIN hereCustomers
        /\ rides[k].driver_id \in DOMAIN hereDrivers
        /\ rides[k].number_id \in proxy_numbers

\* The rides in which this id is the customer's or the driver's
RidesOf(id) == {k \in DOMAIN Pairings : id \in Identities(Pairings[k])}

Exhausted(rs, customerID, driverID) ==
    \A db \in {loadDB(proxy_numbers, rs)} :
        \A pOrder \in Orders(proxy_numbers) :
            getAvailableProxyNumber(db, customerID, driverID, pOrder).err

\* The ids a call can be made for (0 for a value that is no integer)
CallIDs == 0..NumCustomers

\* C32 (permanent exhaustion): the pool never changes, and a pair for which
\* the call fails keeps failing whatever rides are stored afterwards; a
\* call made fails exactly when its pair is exhausted on the rides stored
\* before it.
C32_PermanentExhaustion ==
    [][\/ UNCHANGED <<rides, proxy_numbers>> /\ ~alloc'.called
       \/ /\ proxy_numbers' = proxy_numbers
          /\ alloc'.called =>
                alloc'.err = Exhausted(rides, alloc'.customerID, alloc'.driverID)
          /\ \A customerID \in CallIDs, driverID \in CallIDs :
                Exhausted(rides, customerID, driverID)
                    => Exhausted(rides', customerID, driverID)]_vars

\* A call fails for a pair that was exhausted before the last ride was stored
C32_Witness ==
    /\ alloc.called /\ alloc.err
    /\ Len(rides) > 1
    /\ Exhausted(SubSeq(rides, 1, Len(rides) - 1), alloc.customerID, alloc.driverID)

\* C33 (methods): a request to /createride that is no POST stores no ride,
\* calls for no proxy number and sends no SMS; a request to the SMS webhook
\* that is no POST sends no SMS.
C33_OnlyPOSTActs ==
    [][/\ (req'.handler = "createRide" /\ req'.method # "POST")
             => (rides' = rides /\ sent' = <<>> /\ ~alloc'.called)
       /\ (req'.handler = "messageHook" /\ req'.method # "POST")
             => (rides' = rides /\ sent' = <<>>)]_vars

\* A webhook request that is no POST came from a party of a ride bound to
\* the number it names
C33_Witness ==
    /\ req.handler = "messageHook" /\ req.method # "POST"
    /\ \E k \in BoundTo(req.receiver) : IsParty(k, req.originator)

\* The message a ride creation sets when the allocator fails
AllocationError == "We encountered an error: no available proxy numbers"

\* C34 (request isolation): with handlers running at the same time on the
\* one shared dbdata, the page of a ride creation whose allocation failed
\* shows the message that request has set, and the proxy numbers and rides
\* the allocator iterates for a request are those the request's own loadDB
\* has read.
C34_RequestIsolation ==
    [][\A g \in Goroutines :
          /\ (inflight[g].pc = "failed" /\ inflight'[g].pc = "idle")
                => resp' = Page(AllocationError)
          /\ (/\ inflight[g].pc = "loaded" /\ inflight[g].handler = "createRide"
              /\ inflight'[g].pc \in {"allocated", "failed"})
                => /\ dbdata.Rides = inflight[g].snapshot.Rides
                   /\ dbdata.ProxyNumbers = inflight[g].snapshot.ProxyNumbers]_vars

====
